---------------------------- MODULE Spec2Model ----------------------------
(***************************************************************************)
(* Postboi: the ZeptoMail provider (src/src/library/zepto.ts) and the      *)
(* shared ProviderBase helpers it inherits (the index module, lines        *)
(* 346-617 of src/src/routes/zepto/zepto.test.ts).                         *)
(*                                                                         *)
(* A JavaScript string is a sequence of one-character strings; a           *)
(* JavaScript value is a record tagged by its type in field t.  The HTML   *)
(* body is kept as the sequence of its <tr> rows.                          *)
(***************************************************************************)
EXTENDS Integers, Sequences, FiniteSets, TLC

\* ------------------------------------------------------------ bounds
\* Longest form the caller builds in the envelope specification (Spec).
MaxCtl == 2
\* Longest form the caller builds in the form specification (SpecForm).
MaxFields == 3
\* Longest form the caller builds in the merge specification (SpecMerge).
MaxMerge == 2
\* Longest form the caller builds in the reserved-key specification (SpecReserved).
MaxReserved == 2
\* Longest form the caller builds in the decoding specification (SpecDecode).
MaxDecode == 2
\* Longest array of files handed to parse_attachments (SpecAttach).
MaxFiles == 3

\* ------------------------------------------------------ JavaScript values
Undefined == [t |-> "undefined"]
Null == [t |-> "null"]
False == [t |-> "false"]
Str(s) == [t |-> "string", s |-> s]
Obj(a, n) == [t |-> "object", address |-> a, name |-> n]
Arr(xs) == [t |-> "array", items |-> xs]
Fn(id) == [t |-> "function", id |-> id]
\* A File: its name, its MIME type and its bytes (ASCII characters here).
File(name, type, content) == [t |-> "file", name |-> name, type |-> type, content |-> content]
\* File.size
FileSize(f) == Len(f.content)
\* The rendered body: a string, kept as the rows of its table.
Html(rows) == [t |-> "string", rows |-> rows]
FormData(es) == [t |-> "formdata", entries |-> es]

\* !v
Falsy(v) ==
  \/ v.t \in {"undefined", "null", "false"}
  \/ v.t = "string" /\ v.s = <<>>

\* a ?? b
Coalesce(a, b) == IF a.t \in {"undefined", "null"} THEN b ELSE a

\* ---------------------------------------------------------------- strings
\* The section delimiter of form keys, U+2192.
Arrow == "U+2192"
\* What a UTF-8 decoder gives for bytes that are no character.
Replacement == "U+FFFD"

\* JavaScript's \s within the model's alphabet.
Ws == {" ", "\t", "\n", "\r"}
\* What "." of a regular expression does not match.
LineTerm == {"\n", "\r"}

Lower == <<"a","b","c","d","e","f","g","h","i","j","k","l","m",
           "n","o","p","q","r","s","t","u","v","w","x","y","z">>
Upper == <<"A","B","C","D","E","F","G","H","I","J","K","L","M",
           "N","O","P","Q","R","S","T","U","V","W","X","Y","Z">>
Digits == <<"0","1","2","3","4","5","6","7","8","9">>

Range(f) == {f[i] : i \in DOMAIN f}
IndexIn(c, tbl) == CHOOSE i \in DOMAIN tbl : tbl[i] = c

\* String.prototype.toUpperCase / toLowerCase, one character.
UpperChar(c) == IF c \in Range(Lower) THEN Upper[IndexIn(c, Lower)] ELSE c
LowerChar(c) == IF c \in Range(Upper) THEN Lower[IndexIn(c, Upper)] ELSE c
ToUpperCase(s) == [i \in DOMAIN s |-> UpperChar(s[i])]
ToLowerCase(s) == [i \in DOMAIN s |-> LowerChar(s[i])]

\* s.slice(a - 1, b): the characters a..b.
Slice(s, a, b) == IF a > b THEN <<>> ELSE SubSeq(s, a, b)

Min(S) == CHOOSE i \in S : \A j \in S : i <= j
Max(S) == CHOOSE i \in S : \A j \in S : i >= j

\* String.prototype.trim: from the first to the last character that is no
\* whitespace (`keep` holds their positions).
TrimTo(s, keep) == IF keep = {} THEN <<>> ELSE SubSeq(s, Min(keep), Max(keep))
Trim(s) == TrimTo(s, {i \in DOMAIN s : s[i] \notin Ws})

\* String.prototype.includes, for one character.
Includes(s, c) == \E i \in DOMAIN s : s[i] = c

\* String.prototype.split on one character: the parts, in order.
RECURSIVE Split(_, _)
SplitAt(s, c, hits) ==
  IF hits = {} THEN <<s>>
  ELSE <<Slice(s, 1, Min(hits) - 1)>> \o Split(Slice(s, Min(hits) + 1, Len(s)), c)
Split(s, c) == SplitAt(s, c, {i \in DOMAIN s : s[i] = c})

\* Array.prototype.filter and join for sequences.
RECURSIVE SelectNonEmpty(_)
SelectNonEmpty(xs) ==
  IF xs = <<>> THEN <<>>
  ELSE (IF Len(Head(xs)) > 0 THEN <<Head(xs)>> ELSE <<>>) \o SelectNonEmpty(Tail(xs))

RECURSIVE Join(_, _)
Join(xs, sep) ==
  IF xs = <<>> THEN <<>>
  ELSE IF Len(xs) = 1 THEN Head(xs)
  ELSE Head(xs) \o sep \o Join(Tail(xs), sep)

\* ---------------------------------------------------------- decode_value
\* The base64 alphabet, in value order (index - 1 is the 6-bit value).
B64 == Upper \o Lower \o Digits \o <<"+", "/">>
\* The printable ASCII characters 32..126, in code order.
Ascii == <<" ","!","\"","#","$","%","&","'","(",")","*","+",",","-",".","/">>
         \o Digits \o <<":",";","<","=",">","?","@">> \o Upper
         \o <<"[","\\","]","^","_","U+0060">> \o Lower \o <<"{","|","}","~">>

IsB64(c) == c \in Range(B64)
B64Val(c) == IndexIn(c, B64) - 1

\* /^(?:[A-Za-z0-9+/]{4})*(?:[A-Za-z0-9+/]{2}==|[A-Za-z0-9+/]{3}=)?$/.test(s)
PadLen(s) ==
  IF Len(s) >= 4 /\ s[Len(s)] = "="
  THEN IF s[Len(s) - 1] = "=" THEN 2 ELSE 1
  ELSE 0
base64_regex(s) ==
  /\ Len(s) % 4 = 0
  /\ \A i \in 1..(Len(s) - PadLen(s)) : IsB64(s[i])

\* str.replace(/[\r\n]+/g, "")
RECURSIVE StripLineBreaks(_)
StripLineBreaks(s) ==
  IF s = <<>> THEN <<>>
  ELSE (IF Head(s) \in LineTerm THEN <<>> ELSE <<Head(s)>>) \o StripLineBreaks(Tail(s))

\* Buffer.from(clean, "base64"): the bytes of a string the pattern accepted.
\* The 24 bits of one group of four characters ("=" counts as 0).
B64Pad(c) == IF c = "=" THEN 0 ELSE B64Val(c)
B64Word(s) == ((B64Val(s[1]) * 64 + B64Val(s[2])) * 64 + B64Pad(s[3])) * 64 + B64Pad(s[4])
\* The bytes of a group: one for "xx==", two for "xxx=", else three.
WordBytes(w, n) == SubSeq(<<w \div 65536, (w \div 256) % 256, w % 256>>, 1, n)
GroupLen(s) == IF s[3] = "=" THEN 1 ELSE IF s[4] = "=" THEN 2 ELSE 3

RECURSIVE B64Bytes(_)
B64Bytes(s) ==
  IF Len(s) < 4 THEN <<>>
  ELSE WordBytes(B64Word(s), GroupLen(s)) \o B64Bytes(Slice(s, 5, Len(s)))

\* Buffer.toString("utf8"), one byte: ASCII is itself; every byte that is no
\* printable ASCII character is shown as the replacement character.
ByteChar(b) ==
  IF b \in 32..126 THEN Ascii[b - 31]
  ELSE IF b = 10 THEN "\n"
  ELSE IF b = 13 THEN "\r"
  ELSE IF b = 9 THEN "\t"
  ELSE Replacement

Utf8(bytes) == [i \in DOMAIN bytes |-> ByteChar(bytes[i])]

decode_value(s) ==
  IF ~base64_regex(s) THEN s
  ELSE Utf8(B64Bytes(StripLineBreaks(s)))

\* ------------------------------------------------------ attachment encoder
\* Buffer.from(array_buffer).toString("base64") over the bytes of ASCII text.
ByteAt(bytes, i) == IF i <= Len(bytes) THEN bytes[i] ELSE 0
ByteWord(bytes) == (bytes[1] * 256 + ByteAt(bytes, 2)) * 256 + ByteAt(bytes, 3)
\* The four characters of one group of up to three bytes (n of them).
WordChars(w, n) ==
  IF n = 1 THEN <<B64[(w \div 262144) + 1], B64[((w \div 4096) % 64) + 1], "=", "=">>
  ELSE IF n = 2
  THEN <<B64[(w \div 262144) + 1], B64[((w \div 4096) % 64) + 1], B64[((w \div 64) % 64) + 1], "=">>
  ELSE <<B64[(w \div 262144) + 1], B64[((w \div 4096) % 64) + 1],
         B64[((w \div 64) % 64) + 1], B64[(w % 64) + 1]>>

RECURSIVE B64Encode(_)
B64Encode(bytes) ==
  IF bytes = <<>> THEN <<>>
  ELSE WordChars(ByteWord(bytes), IF Len(bytes) >= 3 THEN 3 ELSE Len(bytes))
       \o B64Encode(Slice(bytes, 4, Len(bytes)))

\* file.arrayBuffer(): the bytes of the file's characters.
FileBytes(f) == [i \in DOMAIN f.content |-> IndexIn(f.content[i], Ascii) + 31]

file_to_base64(f) == B64Encode(FileBytes(f))

parse_attachment(f) ==
  [name |-> f.name, content |-> file_to_base64(f), mime_type |-> f.type]

\* Promise.all keeps the order of its input whatever the order of completion.
parse_attachments(files) ==
  IF files.t = "array"
  THEN [i \in DOMAIN files.items |-> parse_attachment(files.items[i])]
  ELSE <<parse_attachment(files)>>

\* ------------------------------------------------------ address normalizer
MailAddress(a, n) == [address |-> a, name |-> n]

MinOr0(S) == IF S = {} THEN 0 ELSE Min(S)

\* The first ">" after position i, or 0.
FirstGt(str, i) == MinOr0({j \in DOMAIN str : j > i /\ str[j] = ">"})

\* <\s*([^>]+)\s*>\s*$ matches from position i, the first ">" after it
\* standing at j.
TailFrom(str, i, j) ==
  /\ i \in DOMAIN str
  /\ str[i] = "<"
  /\ j > i + 1
  /\ \A m \in (j + 1)..Len(str) : str[m] \in Ws
TailOK(str, i) == TailFrom(str, i, FirstGt(str, i))

\* The first position from k0 on that holds no whitespace (or the end).
SkipWs(str, k0) == Min({m \in k0..(Len(str) + 1) : m = Len(str) + 1 \/ str[m] \notin Ws})
\* Where "<" must stand when group 1 ends at e: after "? and \s*.
AfterQuoteWs(str, e) ==
  SkipWs(str, IF e + 1 \in DOMAIN str /\ str[e + 1] = "\"" THEN e + 2 ELSE e + 1)

\* The ends of group 1, (.+?), that let the rest of the pattern match when the
\* group starts at s.
Group1Ends(str, s) ==
  {e \in s..Len(str) :
     /\ \A m \in s..e : str[m] \notin LineTerm
     /\ TailOK(str, AfterQuoteWs(str, e))}

\* The starts "? leaves to group 1, in the order tried: it takes the quote
\* first and gives it back on failure.
GroupStarts(str) == IF Len(str) > 0 /\ str[1] = "\"" THEN <<2, 1>> ELSE <<1>>

\* The match with group 1 running from s to e: group 2 lies between the "<"
\* at lt and the first ">" after it.
Groups(str, s, e, lt) ==
  [ok |-> TRUE, g1 |-> Slice(str, s, e), g2 |-> Slice(str, lt + 1, FirstGt(str, lt) - 1)]
\* (.+?) is lazy: the first end that lets the rest match.
MatchAt(str, s, e) == Groups(str, s, e, AfterQuoteWs(str, e))
MatchStart(str, s) == MatchAt(str, s, Min(Group1Ends(str, s)))
NoMatch == [ok |-> FALSE, g1 |-> <<>>, g2 |-> <<>>]

RECURSIVE MatchFrom(_, _)
MatchFrom(str, starts) ==
  IF starts = <<>> THEN NoMatch
  ELSE IF Group1Ends(str, Head(starts)) # {} THEN MatchStart(str, Head(starts))
  ELSE MatchFrom(str, Tail(starts))

\* str.match(/^\s*"?(.+?)"?\s*<\s*([^>]+)\s*>\s*$/) on a trimmed string.
DisplayNameMatch(str) == MatchFrom(str, GroupStarts(str))

\* match ? (name ? { address, name } : { address }) : { address: str }
FromMatch(str, match) ==
  IF match.ok
  THEN IF Trim(match.g1) # <<>>
       THEN MailAddress(Str(Trim(match.g2)), Str(Trim(match.g1)))
       ELSE MailAddress(Str(Trim(match.g2)), Undefined)
  ELSE MailAddress(Str(str), Undefined)

ParseTrimmed(str) == FromMatch(str, DisplayNameMatch(str))

parse_email_address(email) ==
  IF email.t = "string" THEN ParseTrimmed(Trim(email.s))
  ELSE MailAddress(email.address, email.name)

TrimEach(parts) == [i \in DOMAIN parts |-> Trim(parts[i])]
StrEach(parts) == [i \in DOMAIN parts |-> Str(parts[i])]
ParseEach(items) == [i \in DOMAIN items |-> parse_email_address(items[i])]

\* The values parse_addresses hands to parse_email_address, in order: the
\* array's elements, the non-empty trimmed segments of a string with a comma,
\* or the one value.
AddressItems(addresses) ==
  IF addresses.t = "array" THEN addresses.items
  ELSE IF addresses.t = "string" /\ Includes(addresses.s, ",")
  THEN StrEach(SelectNonEmpty(TrimEach(Split(addresses.s, ","))))
  ELSE <<addresses>>

parse_addresses(addresses) == ParseEach(AddressItems(addresses))

\* ------------------------------------------------------- label formatting
\* The separators radashi's title splits on: /(?=[A-Z])|[\.\-\s_]/.
TitleSeps == {".", "-", "_"} \cup Ws

RECURSIVE TitleSplit(_, _)
TitleSplit(s, cur) ==
  IF s = <<>> THEN <<cur>>
  ELSE IF Head(s) \in TitleSeps THEN <<cur>> \o TitleSplit(Tail(s), <<>>)
  ELSE IF Head(s) \in Range(Upper) THEN <<cur>> \o TitleSplit(Tail(s), <<Head(s)>>)
  ELSE TitleSplit(Tail(s), Append(cur, Head(s)))

capitalize(w) ==
  IF w = <<>> THEN <<>>
  ELSE <<UpperChar(LowerChar(w[1]))>> \o ToLowerCase(Tail(w))

\* radashi's title, the default formatter (_.title).
CapitalizeEach(words) == [i \in DOMAIN words |-> capitalize(words[i])]
title(s) ==
  IF s = <<>> THEN <<>>
  ELSE Join(CapitalizeEach(SelectNonEmpty(TitleSplit(s, <<>>))), <<" ">>)

identity(s) == s

\* A caller's formatter function, by name.
Apply(fn, s) ==
  IF fn.id = "upper" THEN ToUpperCase(s)
  ELSE IF fn.id = "bang" THEN Append(s, "!")
  ELSE s

\* The formatter parse_form_data chooses for a label kind ("fieldset" or "name").
\* fset === undefined ? _.title : fset ? fset : identity
FormatWith(f, s) ==
  IF f.t = "undefined" THEN title(s)
  ELSE IF f.t = "function" THEN Apply(f, s)
  ELSE identity(s)
\* formatter?.fieldset, formatter?.name
Member(formatter, kind) ==
  IF formatter.t = "undefined" THEN Undefined
  ELSE IF kind = "fieldset" THEN formatter.fieldset ELSE formatter.name
ChooseFormat(formatter, kind, s) ==
  IF formatter.t \in {"null", "false"} THEN identity(s)
  ELSE FormatWith(Member(formatter, kind), s)

format_fieldset(formatter, s) == ChooseFormat(formatter, "fieldset", s)
format_name(formatter, s) == ChooseFormat(formatter, "name", s)

\* ---------------------------------------------------- form grouping engine
\* The reserved keys of the switch in parse_form_data.
k_to == <<"_","t","o">>
k_subject == <<"_","s","u","b","j","e","c","t">>
k_from == <<"_","f","r","o","m">>
k_reply_to == <<"_","r","e","p","l","y","_","t","o">>
k_cc == <<"_","c","c">>
k_bcc == <<"_","b","c","c">>
general == <<"g","e","n","e","r","a","l">>

\* The option a reserved key sets, or "" for any other key (the switch's cases).
\* A switch that lacks the "_cc" case.
ControlOptionNoCc(key) ==
  IF key = k_to THEN "to"
  ELSE IF key = k_subject THEN "subject"
  ELSE IF key = k_from THEN "from"
  ELSE IF key = k_reply_to THEN "reply_to"
  ELSE IF key = k_bcc THEN "bcc"
  ELSE ""

ControlOption(key) ==
  IF key = k_to THEN "to"
  ELSE IF key = k_subject THEN "subject"
  ELSE IF key = k_from THEN "from"
  ELSE IF key = k_reply_to THEN "reply_to"
  ELSE IF key = k_cc THEN "cc"
  ELSE IF key = k_bcc THEN "bcc"
  ELSE ""

\* value && typeof value === "object" && "name" in value && "type" in value
IsFileLike(v) == v.t = "file"

\* The insertion-ordered Map<string, string | string[]> of one fieldset:
\* a sequence of [label, value], a set of an existing key keeping its place.
MapHas(m, k) == \E i \in DOMAIN m : m[i].label = k
MapIndex(m, k) == CHOOSE i \in DOMAIN m : m[i].label = k
MapGet(m, k) == IF MapHas(m, k) THEN m[MapIndex(m, k)].value ELSE Undefined
MapSet(m, k, v) ==
  IF MapHas(m, k) THEN [m EXCEPT ![MapIndex(m, k)].value = v]
  ELSE Append(m, [label |-> k, value |-> v])

\* The insertion-ordered Map of fieldsets: a sequence of [name, fields].
GroupHas(g, name) == \E i \in DOMAIN g : g[i].name = name
GroupIndex(g, name) == CHOOSE i \in DOMAIN g : g[i].name = name

\* if (!grouped.has(fieldset)) grouped.set(fieldset, new Map())
EnsureGroup(grouped, fieldset) ==
  IF GroupHas(grouped, fieldset) THEN grouped
  ELSE Append(grouped, [name |-> fieldset, fields |-> <<>>])

\* if (existing) { push, or [existing, value] } else map.set(field, value)
Coalesced(existing, value) ==
  IF ~Falsy(existing)
  THEN IF existing.t = "array"
       THEN Arr(Append(existing.items, Str(value)))
       ELSE Arr(<<existing, Str(value)>>)
  ELSE Str(value)

MapPut(map, field, value) == MapSet(map, field, Coalesced(MapGet(map, field), value))

PutInto(g, i, field, value) == [g EXCEPT ![i].fields = MapPut(@, field, value)]

\* The body shared by both arms of `if (field)`: get the fieldset's map
\* (creating it), then set, start or extend the value under the label.
PutGroup(g, fieldset, field, value) == PutInto(g, GroupIndex(g, fieldset), field, value)
PutField(grouped, fieldset, field, value) ==
  PutGroup(EnsureGroup(grouped, fieldset), fieldset, field, value)

\* const [fieldset, field] = key.split(Arrow)
PartsOf(parts) ==
  [fieldset |-> parts[1],
   field |-> IF Len(parts) >= 2 THEN Str(parts[2]) ELSE Undefined]
KeyParts(key) == PartsOf(Split(key, Arrow))

\* if (field) { the fieldset's map } else { the map of "general", under key }
FieldTarget(kp, key) ==
  IF ~Falsy(kp.field) THEN [fieldset |-> kp.fieldset, field |-> kp.field.s]
  ELSE [fieldset |-> general, field |-> key]
PutTarget(grouped, target, value) == PutField(grouped, target.fieldset, target.field, value)
GroupString(grouped, key, value) == PutTarget(grouped, FieldTarget(KeyParts(key), key), value)

\* One turn of the loop over form_data.entries().
\* A loop that collects every file-like value.
KeepAnyFile(file) == TRUE

\* file.name && size > 0: an empty file input is ignored.
KeepFile(file) == file.name # <<>> /\ FileSize(file) > 0

FormStep(st, entry) ==
  IF IsFileLike(entry.value)
  THEN IF KeepFile(entry.value)
       THEN [st EXCEPT !.attachments = Append(@, entry.value)]
       ELSE st
  ELSE IF entry.value.t = "string"
  THEN IF ControlOption(entry.key) # ""
       THEN [st EXCEPT !.options =
               (ControlOption(entry.key) :> Str(decode_value(entry.value.s))) @@ @]
       ELSE [st EXCEPT !.grouped = GroupString(@, entry.key, entry.value.s)]
  ELSE st

RECURSIVE FormLoop(_, _)
FormLoop(st, entries) ==
  IF entries = <<>> THEN st
  ELSE FormLoop(FormStep(st, Head(entries)), Tail(entries))

\* ------------------------------------------------------ HTML table renderer
HeaderRow(label) == [kind |-> "header", label |-> label, display |-> Undefined]
FieldRow(label, value) == [kind |-> "field", label |-> label, display |-> value]
SpacerRow == [kind |-> "spacer", label |-> <<>>, display |-> Undefined]

FieldRows(fields, formatter) ==
  [i \in DOMAIN fields |-> FieldRow(format_name(formatter, fields[i].label), fields[i].value)]

\* A renderer that frames "general" like any other section.
SectionRowsFramed(sec, formatter) ==
  IF Len(sec.fields) > 0
  THEN <<HeaderRow(format_fieldset(formatter, sec.name))>>
       \o FieldRows(sec.fields, formatter)
       \o <<SpacerRow>>
  ELSE <<>>

SectionRows(sec, formatter) ==
  IF Len(sec.fields) > 0
  THEN (IF sec.name # general THEN <<HeaderRow(format_fieldset(formatter, sec.name))>> ELSE <<>>)
       \o FieldRows(sec.fields, formatter)
       \o (IF sec.name # general THEN <<SpacerRow>> ELSE <<>>)
  ELSE <<>>

RECURSIVE RenderRows(_, _)
RenderRows(grouped, formatter) ==
  IF grouped = <<>> THEN <<>>
  ELSE SectionRows(Head(grouped), formatter) \o RenderRows(Tail(grouped), formatter)

\* parse_form_data: the extracted options (only the keys it set), the files
\* collected, and its local `grouped` as it stands at the return.
\* A renderer without the `grouped.size > 0` guard.
RenderedAlways(st, formatter) ==
  [st EXCEPT !.options = ("body" :> Html(RenderRows(st.grouped, formatter))) @@ @]

Rendered(st, formatter) ==
  IF Len(st.grouped) > 0
  THEN [st EXCEPT !.options = ("body" :> Html(RenderRows(st.grouped, formatter))) @@ @]
  ELSE st
parse_form_data(entries, formatter) ==
  Rendered(FormLoop([options |-> <<>>, attachments |-> <<>>, grouped |-> <<>>], entries),
           formatter)

\* -------------------------------------------------------- send orchestrator
NoRecipient == "No recipient address provided (to or default_to)"
NoSender == "No sender address provided (from or default_from)"
NoParse == [options |-> <<>>, attachments |-> <<>>, grouped |-> <<>>]

\* { ...extracted, ...options }: the spread the other way round.
SpreadExplicitLast(options, extracted) == options @@ extracted

\* { ...options, ...extracted }: the keys extracted holds win.
Spread(options, extracted) == extracted @@ options

\* A merge that assigns the collected files whether or not there are any.
MergedAlways(options, parsed) ==
  [Spread(options, parsed.options) EXCEPT !.attachments = Arr(parsed.attachments)]

\* options = { ...options, ...extracted }
\* if (attachments.length > 0) options.attachments = attachments
Merged(options, parsed) ==
  IF Len(parsed.attachments) > 0
  THEN [Spread(options, parsed.options) EXCEPT !.attachments = Arr(parsed.attachments)]
  ELSE Spread(options, parsed.options)

\* options.to ??= defaults.to; options.from ??= defaults.from
Defaulted(o, defaults) ==
  [o EXCEPT !.to = Coalesce(@, defaults.to), !.from = Coalesce(@, defaults.from)]

\* A validation that lacks the sender check.
ValidatedRecipientOnly(o, caller, parsed) ==
  [threw |-> IF Falsy(o.to) THEN NoRecipient ELSE "",
   options |-> o,
   caller |-> caller,
   parsed |-> parsed]

\* The two throws, and prepare_send's return.  `caller` is the caller's object
\* after the call: with a string body the defaults were assigned on that
\* object itself, with a form body on the copy the spread made.
Validated(o, caller, parsed) ==
  [threw |-> IF Falsy(o.to) THEN NoRecipient ELSE IF Falsy(o.from) THEN NoSender ELSE "",
   options |-> o,
   caller |-> caller,
   parsed |-> parsed]

PrepareString(options, o) == Validated(o, o, NoParse)
PrepareForm(options, parsed, defaults) ==
  Validated(Defaulted(Merged(options, parsed), defaults), options, parsed)

\* prepare_send(options, defaults); parse_form_data is called with the form
\* alone, so its formatter parameter is undefined.
prepare_send(options, defaults) ==
  IF options.body.t = "formdata"
  THEN PrepareForm(options, parse_form_data(options.body.entries, Undefined), defaults)
  ELSE PrepareString(options, Defaulted(options, defaults))

DefaultSubject == Str(<<"M","a","i","l"," ","s","e","n","t"," ","f","r","o","m"," ","w","e","b","s","i","t","e">>)

Wrap(addrs) == [i \in DOMAIN addrs |-> [email_address |-> addrs[i]]]

\* this.parse_addresses(options[k]) for the four list fields; `to` is
\* parsed whatever it holds, the others only when truthy.
ListFields == {"to", "reply_to", "bcc", "cc"}
AddressLists(options) ==
  [k \in ListFields |->
     IF k = "to" \/ ~Falsy(options[k]) THEN Arr(parse_addresses(options[k])) ELSE Undefined]

WrapList(v) == IF v.t = "array" THEN Arr(Wrap(v.items)) ELSE v

\* The zepto_params literal of send.
ParamsOf(options, lists) ==
  [to |-> Wrap(lists["to"].items),
   from |-> parse_email_address(options.from),
   reply_to |-> lists["reply_to"],
   bcc |-> WrapList(lists["bcc"]),
   cc |-> WrapList(lists["cc"]),
   subject |-> IF ~Falsy(options.subject) THEN options.subject ELSE DefaultSubject,
   htmlbody |-> IF options.body.t = "string" THEN options.body ELSE Str(<<>>),
   attachments |-> IF ~Falsy(options.attachments)
                   THEN Arr(parse_attachments(options.attachments)) ELSE Undefined]
ZeptoParams(options) == ParamsOf(options, AddressLists(options))

\* JSON objects of the transport: their properties by name.
JObj(props) == [t |-> "object", props |-> props]
Prop(o, k) == IF k \in DOMAIN o.props THEN o.props[k] ELSE Undefined

InnerShape(inner) ==
  /\ inner.t = "object"
  /\ Prop(inner, "code").t = "string"
  /\ Prop(inner, "message").t = "string"
  /\ Prop(inner, "request_id").t \in {"undefined", "string"}
  /\ Prop(inner, "details").t = "array"

\* A guard that stops at the "error" property.
is_errorOuterOnly(e) ==
  /\ e.t = "object"
  /\ "error" \in DOMAIN e.props

is_error(e) ==
  /\ e.t = "object"
  /\ "error" \in DOMAIN e.props
  /\ InnerShape(e.props["error"])

\* ------------------------------------------------------------------ state
VARIABLES
  defaults,      \* this.#defaults of the instance: [from, to]
  form,          \* the FormData the caller is filling in
  request,       \* the caller's options object, as it is now
  original,      \* the options as they were when send was called
  pc,            \* where the call stands
  parsed,        \* what parse_form_data returned in this call
  options,       \* send's local `options` (prepare_send's result)
  zepto_params,  \* send's local `zepto_params`
  wire,          \* the request bodies handed to fetch in this call, in order
  answer,        \* how the awaited fetch settled in this call
  outcome,       \* what the call returned or threw
  reads          \* a call of parse_attachments: its file reads and its result

sendVars == <<defaults, form, request, original, pc, parsed, options, zepto_params, wire,
              answer, outcome>>
vars == <<sendVars, reads>>

NoOutcome == [kind |-> "none", value |-> Undefined]
\* The settled fetch: response.json() resolved with a body, or fetch rejected.
NoAnswer == [kind |-> "none", value |-> Undefined]
Resolved(data) == [kind |-> "resolve", value |-> data]
Rejected(e) == [kind |-> "reject", value |-> e]
Returned(v) == [kind |-> "return", value |-> v]
Thrown(v) == [kind |-> "throw", value |-> v]
Error(msg) == [t |-> "Error", message |-> msg]

\* parse_attachments under way: the files, the indices whose read has not
\* completed, the indices in the order their reads completed, the attachment
\* each index resolved to, and the value the call resolved to.
NoReads ==
  [pc |-> "idle", files |-> Undefined, pending |-> {}, order |-> <<>>, results |-> <<>>,
   value |-> <<>>]
\* The files read: those of the array, or the single one.
FileList(files) == IF files.t = "array" THEN files.items ELSE <<files>>
Reading(files, list) ==
  [pc |-> "reading", files |-> files, pending |-> DOMAIN list, order |-> <<>>,
   results |-> [i \in DOMAIN list |-> Undefined], value |-> <<>>]

\* parse_attachments(files): every parse_attachment is started, each awaiting
\* its file.arrayBuffer().
StartReads(Inputs) ==
  /\ reads.pc = "idle"
  /\ \E files \in Inputs : reads' = Reading(files, FileList(files))
  /\ UNCHANGED sendVars

\* One file's arrayBuffer() resolves and its parse_attachment returns.
ReadComplete ==
  /\ reads.pc = "reading"
  /\ \E i \in reads.pending :
       reads' = [reads EXCEPT !.pending = @ \ {i},
                              !.order = Append(@, i),
                              !.results[i] = parse_attachment(FileList(reads.files)[i])]
  /\ UNCHANGED sendVars

\* A collection that takes the attachments as their reads complete.
InCompletionOrder(results, order) == [k \in DOMAIN order |-> results[order[k]]]

\* Promise.all (and the one-element array literal): the values by position.
PromiseAll(results, order) == results

\* Every read has completed: the awaited Promise.all resolves.
ReadsSettled ==
  /\ reads.pc = "reading"
  /\ reads.pending = {}
  /\ reads' = [reads EXCEPT !.pc = "resolved", !.value = PromiseAll(reads.results, reads.order)]
  /\ UNCHANGED sendVars

\* The caller has taken the attachments.
ReadsDone ==
  /\ reads.pc = "resolved"
  /\ reads' = NoReads
  /\ UNCHANGED sendVars

\* fail(400, data) and the action's success object.
Fail(status, data) == [status |-> status, data |-> data]
Success == [success |-> TRUE]
\* String(e), as the pieces of its text.
String(e) ==
  IF e.t = "Error" THEN <<"Error: ", e.message>>
  ELSE IF e.t = "string" THEN e.s
  ELSE <<"[object Object]">>
\* actions.default around the outcome of its mail.send.
Caught(e) ==
  IF is_error(e) THEN Fail(400, [error |-> Prop(e.props["error"], "message")])
  ELSE Fail(400, [error |-> String(e)])
default_action(sent) == IF sent.kind = "return" THEN Success ELSE Caught(sent.value)

\* new Postboi({ token, default_from, default_to })
Construct(Defaults) ==
  /\ defaults \in Defaults
  /\ form = <<>>
  /\ request = Undefined
  /\ original = Undefined
  /\ pc = "idle"
  /\ parsed = NoParse
  /\ options = Undefined
  /\ zepto_params = Undefined
  /\ wire = <<>>
  /\ answer = NoAnswer
  /\ outcome = NoOutcome
  /\ reads = NoReads

\* form_data.append(key, value), by the caller before the call.
FormAppend(Entries, limit) ==
  /\ pc = "idle"
  /\ Len(form) < limit
  /\ \E e \in Entries : form' = Append(form, e)
  /\ UNCHANGED <<defaults, request, original, pc, parsed, options, zepto_params, wire, answer,
                  outcome>>
  /\ UNCHANGED reads

\* mail.send(_options) up to the return of prepare_send: the request is one of
\* Envelopes with a string body or the form the caller filled in.
Prepared(req, r) ==
  /\ original' = req
  /\ request' = r.caller
  /\ parsed' = r.parsed
  /\ options' = r.options
  /\ IF r.threw # ""
     THEN pc' = "thrown" /\ outcome' = Thrown(Error(r.threw))
     ELSE pc' = "prepared" /\ outcome' = outcome

Call(req) == Prepared(req, prepare_send(req, defaults))

Send(Envelopes, Bodies) ==
  /\ pc = "idle"
  /\ \E env \in Envelopes, body \in Bodies \cup {FormData(form)} :
       Call([env EXCEPT !.body = body])
  /\ UNCHANGED <<defaults, form, zepto_params, wire, answer>>
  /\ UNCHANGED reads

\* send, lines 98-113: the addresses and attachments are normalized.
BuildParams ==
  /\ pc = "prepared"
  /\ zepto_params' = ZeptoParams(options)
  /\ pc' = "built"
  /\ UNCHANGED <<defaults, form, request, original, parsed, options, wire, answer, outcome>>
  /\ UNCHANGED reads

\* send, line 115: fetch is invoked with the serialized zepto_params.
Fetch ==
  /\ pc = "built"
  /\ wire' = Append(wire, zepto_params)
  /\ pc' = "fetching"
  /\ UNCHANGED <<defaults, form, request, original, parsed, options, zepto_params, answer, outcome>>
  /\ UNCHANGED reads

\* send, lines 124-128: the transport answered with a JSON body.
FetchResolve(Datas) ==
  /\ pc = "fetching"
  /\ \E data \in Datas :
       /\ answer' = Resolved(data)
       /\ IF is_error(data)
          THEN pc' = "thrown" /\ outcome' = Thrown(data)
          ELSE pc' = "returned" /\ outcome' = Returned(data)
  /\ UNCHANGED <<defaults, form, request, original, parsed, options, zepto_params, wire>>
  /\ UNCHANGED reads

\* A send that goes back to fetch again when the fetch rejects.
FetchRejectRetry(Errors) ==
  /\ pc = "fetching"
  /\ pc' = "built"
  /\ UNCHANGED <<defaults, form, request, original, parsed, options, zepto_params, wire, answer,
                  outcome>>
  /\ UNCHANGED reads

\* send, line 115: the awaited fetch rejected.
FetchReject(Errors) ==
  /\ pc = "fetching"
  /\ \E e \in Errors : answer' = Rejected(e) /\ pc' = "thrown" /\ outcome' = Thrown(e)
  /\ UNCHANGED <<defaults, form, request, original, parsed, options, zepto_params, wire>>
  /\ UNCHANGED reads

\* The call is over; the caller goes on to its next request.
Finish ==
  /\ pc \in {"returned", "thrown"}
  /\ form' = <<>>
  /\ request' = Undefined
  /\ original' = Undefined
  /\ pc' = "idle"
  /\ parsed' = NoParse
  /\ options' = Undefined
  /\ zepto_params' = Undefined
  /\ wire' = <<>>
  /\ answer' = NoAnswer
  /\ outcome' = NoOutcome
  /\ UNCHANGED defaults
  /\ UNCHANGED reads

\* ----------------------------------------------------------------- inputs
a_x == <<"a","@","x">>
b_x == <<"b","@","x">>
c_x == <<"c","@","x">>
d_x == <<"d","@","x">>
e_x == <<"e","@","x">>
f_x == <<"f","@","x">>
g_x == <<"g","@","x">>
Hi == <<"H","i">>
Hi_b64 == <<"S","G","k","=">>
Re == <<"R","e">>
Body == <<"B","o","d","y">>

Entry(key, value) == [key |-> key, value |-> value]

Envelope(to, from, reply_to, cc, bcc, subject, formatter, attachments) ==
  [to |-> to, from |-> from, reply_to |-> reply_to, cc |-> cc, bcc |-> bcc,
   subject |-> subject, body |-> Undefined, formatter |-> formatter,
   attachments |-> attachments]

\* The transport's answers: a success, a provider error, an error body that
\* lacks the provider's shape.
OkData == JObj([data |-> Arr(<<>>), message |-> Str(<<"O","K">>)])
ErrData == JObj([error |-> JObj([code |-> Str(<<"E">>), message |-> Str(<<"b","a","d">>),
                                 details |-> Arr(<<>>)])])
PartialErrData == JObj([error |-> JObj([code |-> Str(<<"E">>)])])
Responses == {OkData, ErrData, PartialErrData}
Rejections == {Error("something went wrong")}

\* -- Spec: the envelope.  Every shape of to/from, forms of control fields.
ToShapes ==
  { Undefined, Str(<<>>), Str(a_x), Str(a_x \o <<",">> \o b_x), Str(<<" ", ",", " ">>),
    Str(<<" ">>), Str(<<"A","l"," ","<">> \o a_x \o <<">">>),
    Obj(Str(a_x), Str(<<"A","l">>)), Obj(Str(<<>>), Undefined),
    Arr(<<>>), Arr(<<Str(a_x), Obj(Str(b_x), Undefined)>>) }
FromShapes == { Undefined, Str(<<>>), Str(f_x), Str(<<" ">>), Obj(Str(f_x), Undefined) }
EnvelopeRequests ==
  { Envelope(to, from, Undefined, Undefined, Undefined, Undefined, Undefined, Undefined) :
      to \in ToShapes, from \in FromShapes }
EnvelopeEntries ==
  { Entry(k_to, Str(<<>>)), Entry(k_to, Str(c_x)), Entry(k_to, Str(<<",">>)),
    Entry(k_from, Str(g_x)), Entry(k_from, Str(<<>>)), Entry(<<"n">>, Str(<<"J","o">>)) }
DefaultsSet ==
  { [to |-> dt, from |-> df] : dt \in {Undefined, Str(d_x)}, df \in {Undefined, Str(e_x)} }

Init == Construct(DefaultsSet)

Next ==
  \/ FormAppend(EnvelopeEntries, MaxCtl)
  \/ Send(EnvelopeRequests, {Str(Body)})
  \/ BuildParams
  \/ Fetch
  \/ FetchResolve(Responses)
  \/ FetchReject(Rejections)
  \/ Finish

Spec == Init /\ [][Next]_vars

\* -- SpecMerge: explicit envelope fields against the form's control fields
\* and files.
file1 == File(<<"a",".","t","x","t">>, <<"t","e","x","t">>, <<"J","o">>)
file2 == File(<<"b",".","t","x","t">>, <<"t","e","x","t">>, <<"H","i","!">>)
file3 == File(<<"c",".","p","n","g">>, <<"i","m","g">>, <<"P">>)
NoNameFile == File(<<>>, <<"t","e","x","t">>, <<"J","o">>)
EmptyFile == File(<<"e",".","t","x","t">>, <<"t","e","x","t">>, <<>>)
upload == <<"u","p">>

EnvelopeFields == {"to", "from", "reply_to", "cc", "bcc", "subject"}
\* What the caller sets a field to when it sets it.
ExplicitValue ==
  [to |-> Str(a_x), from |-> Str(f_x), reply_to |-> Str(b_x), cc |-> Str(b_x),
   bcc |-> Str(b_x), subject |-> Str(Re)]
Given(S, k) == IF k \in S THEN ExplicitValue[k] ELSE Undefined
MergeRequests ==
  { Envelope(Given(S, "to"), Given(S, "from"), Given(S, "reply_to"), Given(S, "cc"),
             Given(S, "bcc"), Given(S, "subject"), Undefined, att) :
      S \in {T \in SUBSET EnvelopeFields : Cardinality(T) <= 2},
      att \in {Undefined, file1, Arr(<<file1, file2>>)} }
MergeEntries ==
  { Entry(k_to, Str(c_x)), Entry(k_from, Str(g_x)), Entry(k_reply_to, Str(c_x)),
    Entry(k_cc, Str(c_x)), Entry(k_bcc, Str(c_x)), Entry(k_subject, Str(Hi_b64)),
    Entry(upload, file3), Entry(upload, file2), Entry(upload, NoNameFile),
    Entry(upload, EmptyFile) }
MergeDefaults == { [to |-> Str(d_x), from |-> Str(e_x)] }
MergeResponses == {OkData, ErrData}

InitMerge == Construct(MergeDefaults)

NextMerge ==
  \/ FormAppend(MergeEntries, MaxMerge)
  \/ Send(MergeRequests, {Str(Body)})
  \/ BuildParams
  \/ Fetch
  \/ FetchResolve(MergeResponses)
  \/ FetchReject(Rejections)
  \/ Finish

SpecMerge == InitMerge /\ [][NextMerge]_vars

\* -- SpecForm: the content of the form, under every formatting policy.
hq == <<"h","q">>
it == <<"i","t">>
nm == <<"n","m">>
e_m == <<"e","_","m">>
In(section, label) == section \o <<Arrow>> \o label

Policy(fieldset, name) == [t |-> "object", fieldset |-> fieldset, name |-> name]
Policies == { Undefined, Null, Policy(Fn("upper"), False), Policy(Null, Fn("bang")) }
FormRequests ==
  { Envelope(Str(a_x), Str(f_x), Undefined, Undefined, Undefined, Undefined, p, Undefined) :
      p \in Policies }
FormEntries ==
  { Entry(nm, Str(<<>>)), Entry(nm, Str(<<"a">>)), Entry(nm, Str(<<"b">>)),
    Entry(In(hq, nm), Str(<<>>)), Entry(In(hq, nm), Str(<<"a">>)),
    Entry(In(it, nm), Str(<<"a">>)), Entry(In(hq, e_m), Str(<<"b">>)),
    Entry(k_subject, Str(Hi)),
    Entry(In(hq, upload), file1), Entry(In(hq, upload), NoNameFile),
    Entry(upload, EmptyFile) }

InitForm == Construct(MergeDefaults)

NextForm ==
  \/ FormAppend(FormEntries, MaxFields)
  \/ Send(FormRequests, {})
  \/ BuildParams
  \/ Fetch
  \/ FetchResolve({OkData})
  \/ FetchReject(Rejections)
  \/ Finish

SpecForm == InitForm /\ [][NextForm]_vars

\* -- SpecReserved: the six reserved keys, bare and behind a section delimiter.
ReservedKeys == { k_to, k_from, k_subject, k_reply_to, k_cc, k_bcc }
ReservedEntries ==
  { Entry(k, Str(c_x)) : k \in ReservedKeys }
  \cup { Entry(In(hq, k), Str(<<"a">>)) : k \in ReservedKeys }
  \cup { Entry(nm, Str(<<"a">>)), Entry(In(hq, nm), Str(<<"b">>)) }
ReservedRequests ==
  { Envelope(Str(a_x), Str(f_x), Undefined, Undefined, Undefined, Undefined, Undefined, Undefined) }

InitReserved == Construct(MergeDefaults)

NextReserved ==
  \/ FormAppend(ReservedEntries, MaxReserved)
  \/ Send(ReservedRequests, {})
  \/ BuildParams
  \/ Fetch
  \/ FetchResolve({OkData})
  \/ FetchReject(Rejections)
  \/ Finish

SpecReserved == InitReserved /\ [][NextReserved]_vars

\* -- SpecAttach: parse_attachments, its reads completing in every order.
SomeFiles == {file1, file2, file3, EmptyFile}
FileArrays == UNION {[1..n -> SomeFiles] : n \in 0..MaxFiles}
AttachInputs == SomeFiles \cup {Arr(fs) : fs \in FileArrays}

InitAttach == Construct(MergeDefaults)

NextAttach ==
  \/ StartReads(AttachInputs)
  \/ ReadComplete
  \/ ReadsSettled
  \/ ReadsDone

SpecAttach == InitAttach /\ [][NextAttach]_vars

\* -- SpecAddress: the shapes of one address, as sender and as recipients.
Names == { <<"J","o">>, <<"A","l"," ","B">>, <<>>, <<" ">> }
Addresses == { a_x, b_x }
Styles == { "bare", "quoted", "spaced", "tight" }
\* The display-name string of a name and an address.
Display(n, a, style) ==
  IF style = "quoted" THEN <<"\"">> \o n \o <<"\"", " ", "<">> \o a \o <<">">>
  ELSE IF style = "spaced" THEN <<" ">> \o n \o <<" ", " ", "<", " ">> \o a \o <<" ", ">", " ">>
  ELSE IF style = "tight" THEN n \o <<"<">> \o a \o <<">">>
  ELSE n \o <<" ", "<">> \o a \o <<">">>
DisplayStrings == { Str(Display(n, a, st)) : n \in Names, a \in Addresses, st \in Styles }
Structured == { Obj(Str(a), Str(n)) : n \in Names \ {<<>>, <<" ">>}, a \in Addresses }
SenderShapes == DisplayStrings \cup Structured \cup { Str(a) : a \in Addresses }
RecipientShapes ==
  { Str(a_x), Str(<<" ">> \o a_x \o <<" ">>), Str(<<" ">>), Str(a_x \o <<",">> \o b_x),
    Str(a_x \o <<",", " ", ",">>), Str(Display(<<"J","o">>, a_x, "bare")),
    Str(Display(<<"J">>, <<" ">>, "tight")), Obj(Str(a_x), Str(<<"J","o">>)),
    Obj(Str(<<>>), Undefined), Obj(Str(a_x), Str(<<>>)),
    Arr(<<Str(a_x), Obj(Str(b_x), Undefined)>>), Arr(<<Str(<<" ">>)>>) }
AddressRequests ==
  { Envelope(to, from, Undefined, Undefined, Undefined, Undefined, Undefined, Undefined) :
      to \in RecipientShapes, from \in SenderShapes }

InitAddress == Construct(MergeDefaults)

NextAddress ==
  \/ Send(AddressRequests, {Str(Body)})
  \/ BuildParams
  \/ Fetch
  \/ FetchResolve({OkData})
  \/ FetchReject(Rejections)
  \/ Finish

SpecAddress == InitAddress /\ [][NextAddress]_vars

\* -- SpecDecode: control values as plain text, as base64, and as base64
\* broken into lines.
Encoded ==
  { [text |-> Hi, code |-> Hi_b64],
    [text |-> <<"H","i","!">>, code |-> <<"S","G","k","h">>],
    [text |-> <<"J","o"," ","S">>, code |-> <<"S","m","8","g","U","w","=","=">>],
    [text |-> <<"J">>, code |-> <<"S","g","=","=">>],
    [text |-> <<>>, code |-> <<>>],
    [text |-> Hi, code |-> <<"S","G","\n","k","=">>],
    [text |-> <<"J","o"," ","S">>, code |-> <<"S","m","8","g","\r","\n","U","w","=","=">>],
    [text |-> <<"H","i","!">>, code |-> <<"S","G","k","h","\n">>] }
PlainValues == { a_x, <<"H","i","!">>, <<"J","o"," ","S">>, <<"M","a","i","l">>, <<"S","G","k">> }
DecodeEntries ==
  { Entry(k_subject, Str(e.code)) : e \in Encoded }
  \cup { Entry(k_subject, Str(v)) : v \in PlainValues }

InitDecode == Construct(MergeDefaults)

NextDecode ==
  \/ FormAppend(DecodeEntries, MaxDecode)
  \/ Send(ReservedRequests, {})
  \/ BuildParams
  \/ Fetch
  \/ FetchResolve({OkData})
  \/ FetchReject(Rejections)
  \/ Finish

SpecDecode == InitDecode /\ [][NextDecode]_vars

\* -- SpecKeys: field keys with no delimiter, one delimiter (either part
\* possibly empty) and two delimiters.
KeyShapes ==
  { nm, In(hq, nm), In(hq, <<>>), In(<<>>, nm), In(<<>>, <<>>),
    In(hq, In(it, nm)), In(hq, In(<<>>, nm)) }
KeyEntries == { Entry(k, Str(<<"a">>)) : k \in KeyShapes } \cup { Entry(k_subject, Str(Hi)) }

InitKeys == Construct(MergeDefaults)

NextKeys ==
  \/ FormAppend(KeyEntries, MaxFields)
  \/ Send(ReservedRequests, {})
  \/ BuildParams
  \/ Fetch
  \/ FetchResolve({OkData})
  \/ FetchReject(Rejections)
  \/ Finish

SpecKeys == InitKeys /\ [][NextKeys]_vars

\* ------------------------------------------------------------- properties
\* A call of send with a form body is under way or over; `original` is its
\* request and Submitted the entries of its form.
FormCall == pc # "idle" /\ original.body.t = "formdata"
Submitted == original.body.entries

\* Absent or empty.
Absent(v) == v = Undefined \/ v = Str(<<>>)

\* C1: when, after the explicit fields, the form's control fields and the
\* defaults are merged, `to` or `from` is absent or empty, send fails with the
\* error of the first missing one before any transport step: nothing was
\* built and fetch was not invoked in that call.
C1_FailsBeforeTransport ==
  pc # "idle" /\ (Absent(options.to) \/ Absent(options.from)) =>
    /\ pc = "thrown"
    /\ outcome = Thrown(Error(IF Absent(options.to) THEN NoRecipient ELSE NoSender))
    /\ zepto_params = Undefined
    /\ wire = <<>>

C1_Witness ==
  /\ pc = "thrown"
  /\ original.body.t = "formdata"
  /\ Len(Submitted) > 0
  /\ original.to = Undefined
  /\ defaults.to = Undefined
  /\ Absent(options.to)
  /\ outcome = Thrown(Error(NoRecipient))
  /\ wire = <<>>

\* C2: every request handed to the transport carries at least one recipient,
\* every recipient a non-empty address, and a sender with a non-empty address.
HasAddress(a) == a.address.t = "string" /\ a.address.s # <<>>
C2_EveryRequestAddressed ==
  \A i \in DOMAIN wire :
    /\ Len(wire[i].to) >= 1
    /\ \A j \in DOMAIN wire[i].to : HasAddress(wire[i].to[j].email_address)
    /\ HasAddress(wire[i].from)

\* The reserved key of each envelope field.
ReservedKey ==
  [to |-> k_to, from |-> k_from, reply_to |-> k_reply_to, cc |-> k_cc, bcc |-> k_bcc,
   subject |-> k_subject]
\* The positions of the form's string fields under the reserved key of k.
Supplying(entries, k) ==
  {i \in DOMAIN entries : entries[i].key = ReservedKey[k] /\ entries[i].value.t = "string"}
\* The field as the caller and the defaults alone resolve it.
Unsupplied(k) ==
  IF k \in {"to", "from"} THEN Coalesce(original[k], defaults[k]) ELSE original[k]

\* C3 (as stated): with a form body, an envelope field the caller set
\* explicitly keeps the caller's value; the form's value is used only when the
\* caller set none.
C3_ExplicitWins ==
  FormCall => \A k \in EnvelopeFields : original[k] # Undefined => options[k] = original[k]

\* C3: with a form body, an envelope field the form supplies under its
\* reserved key carries the form's value, decoded, the last one submitted,
\* whether or not the caller set the field; the caller's value (and for to and
\* from the default) is used only when the form does not supply the field.
C3_FormWins ==
  FormCall =>
    \A k \in EnvelopeFields :
      IF Supplying(Submitted, k) # {}
      THEN options[k] = Str(decode_value(Submitted[Max(Supplying(Submitted, k))].value.s))
      ELSE options[k] = Unsupplied(k)

C3_Witness ==
  /\ pc = "fetching"
  /\ original.body.t = "formdata"
  /\ original.subject = Str(Re)
  /\ Supplying(Submitted, "subject") # {}
  /\ options.subject = Str(Hi)
  /\ wire[1].subject = Str(Hi)

\* The grouped data as [section, label] pairs, in order.
RECURSIVE Flatten(_)
Flatten(seqs) == IF seqs = <<>> THEN <<>> ELSE Head(seqs) \o Flatten(Tail(seqs))
SectionLabels(sec) == [j \in DOMAIN sec.fields |-> <<sec.name, sec.fields[j].label>>]
GroupedLabels(grouped) == Flatten([i \in DOMAIN grouped |-> SectionLabels(grouped[i])])
InSeq(x, seq) == \E i \in DOMAIN seq : seq[i] = x

\* C4 (as stated): no field of the grouped data, in any section, carries a
\* reserved key as its label, so none becomes a row.
C4_NoReservedLabel ==
  FormCall =>
    \A i \in DOMAIN parsed.grouped :
      \A j \in DOMAIN parsed.grouped[i].fields :
        parsed.grouped[i].fields[j].label \notin ReservedKeys

\* C4: a string field whose key is exactly one of the six reserved keys
\* produces nothing in the body: the grouped data and the rendered body are
\* those of the submission without these fields.  A reserved name behind a
\* section delimiter is an ordinary field of that section.
NotReserved(e) == ~(e.value.t = "string" /\ e.key \in ReservedKeys)
C4_ExactReservedKeysLeaveNoRow ==
  FormCall =>
    /\ parsed.grouped = parse_form_data(SelectSeq(Submitted, NotReserved), Undefined).grouped
    /\ \A k \in ReservedKeys : ~InSeq(<<general, k>>, GroupedLabels(parsed.grouped))
    /\ \A i \in DOMAIN Submitted :
         ~NotReserved(Submitted[i]) => ControlOption(Submitted[i].key) \in DOMAIN parsed.options
    /\ Len(parsed.grouped) > 0 => options.body = Html(RenderRows(parsed.grouped, Undefined))
    /\ Len(parsed.grouped) = 0 => options.body = original.body

C4_Witness ==
  /\ pc = "prepared"
  /\ original.body.t = "formdata"
  /\ InSeq(Entry(k_cc, Str(c_x)), Submitted)
  /\ InSeq(Entry(In(hq, k_to), Str(<<"a">>)), Submitted)
  /\ parsed.grouped = <<[name |-> hq, fields |-> <<[label |-> k_to, value |-> Str(<<"a">>)]>>]>>
  /\ options.cc = Str(c_x)
  /\ Len(options.body.rows) = 3

\* The string fields that are no control fields, and the section and label of
\* a key that holds at most one delimiter.
IsContent(e) == e.value.t = "string" /\ e.key \notin ReservedKeys
ArrowAt(key) == MinOr0({i \in DOMAIN key : key[i] = Arrow})
KeySection(key) == IF ArrowAt(key) = 0 THEN general ELSE SubSeq(key, 1, ArrowAt(key) - 1)
KeyLabel(key) == IF ArrowAt(key) = 0 THEN key ELSE SubSeq(key, ArrowAt(key) + 1, Len(key))
KeyPair(key) == <<KeySection(key), KeyLabel(key)>>
Content(entries) == SelectSeq(entries, IsContent)

\* The values submitted under a (section, label) pair, in order.
ValuesUnder(content, pair) ==
  LET Under(e) == KeyPair(e.key) = pair
  IN  [i \in DOMAIN SelectSeq(content, Under) |-> Str(SelectSeq(content, Under)[i].value.s)]
AsValue(values) == IF Len(values) = 1 THEN values[1] ELSE Arr(values)

\* C5: the grouped data holds, for every (section, label) pair submitted,
\* exactly the values submitted under it in order, a single string for one
\* value and the list of all of them for more, the empty string included.
C5_EveryValueKept ==
  FormCall =>
    /\ \A i \in DOMAIN Submitted :
         IsContent(Submitted[i]) =>
           InSeq(KeyPair(Submitted[i].key), GroupedLabels(parsed.grouped))
    /\ \A i \in DOMAIN parsed.grouped :
         \A j \in DOMAIN parsed.grouped[i].fields :
           parsed.grouped[i].fields[j].value =
             AsValue(ValuesUnder(Content(Submitted),
                                 <<parsed.grouped[i].name, parsed.grouped[i].fields[j].label>>))

\* The elements of a sequence in the order each first occurs.
RECURSIVE Distinct(_)
Distinct(seq) ==
  IF seq = <<>> THEN <<>>
  ELSE IF InSeq(seq[Len(seq)], SubSeq(seq, 1, Len(seq) - 1))
       THEN Distinct(SubSeq(seq, 1, Len(seq) - 1))
       ELSE Append(Distinct(SubSeq(seq, 1, Len(seq) - 1)), seq[Len(seq)])
Pairs(content) == [i \in DOMAIN content |-> KeyPair(content[i].key)]
SectionsSeen(content) == Distinct([i \in DOMAIN content |-> KeySection(content[i].key)])

\* A section as the table shows it: the kind and the displayed value of each
\* row, and the title-cased labels of the default policy.
Framed(name, row) == IF name # general THEN <<row>> ELSE <<>>
SectionShape(sec) ==
  Framed(sec.name, <<"header", Undefined>>)
  \o [j \in DOMAIN sec.fields |-> <<"field", sec.fields[j].value>>]
  \o Framed(sec.name, <<"spacer", Undefined>>)
SectionTitles(sec) ==
  Framed(sec.name, title(sec.name))
  \o [j \in DOMAIN sec.fields |-> title(sec.fields[j].label)]
  \o Framed(sec.name, <<>>)
RowShape(rows) == [r \in DOMAIN rows |-> <<rows[r].kind, rows[r].display>>]
RowLabels(rows) == [r \in DOMAIN rows |-> rows[r].label]

\* C6: sections stand in the order each was first encountered in the
\* submission and fields, within a section, in first-encounter order; the
\* table shows every section other than "general" as one header row, its
\* field rows, one spacer row, and "general" as its field rows alone, at the
\* place where it was first encountered.
C6_FirstEncounterLayout ==
  FormCall =>
    /\ [i \in DOMAIN parsed.grouped |-> parsed.grouped[i].name] = SectionsSeen(Content(Submitted))
    /\ GroupedLabels(parsed.grouped) =
         Flatten([i \in DOMAIN parsed.grouped |->
                    LET InSection(pair) == pair[1] = parsed.grouped[i].name
                    IN  SelectSeq(Distinct(Pairs(Content(Submitted))), InSection)])
    /\ Len(parsed.grouped) > 0 =>
         /\ RowShape(options.body.rows) =
              Flatten([i \in DOMAIN parsed.grouped |-> SectionShape(parsed.grouped[i])])
         /\ original.formatter = Undefined =>
              RowLabels(options.body.rows) =
                Flatten([i \in DOMAIN parsed.grouped |-> SectionTitles(parsed.grouped[i])])

C6_Witness ==
  /\ pc = "prepared"
  /\ original.body.t = "formdata"
  /\ original.formatter = Undefined
  /\ Submitted = <<Entry(In(hq, nm), Str(<<"a">>)), Entry(nm, Str(<<"b">>)),
                   Entry(In(hq, e_m), Str(<<"b">>))>>
  /\ RowShape(options.body.rows) =
       << <<"header", Undefined>>, <<"field", Str(<<"a">>)>>, <<"field", Str(<<"b">>)>>,
          <<"spacer", Undefined>>, <<"field", Str(<<"b">>)>> >>

\* The label a policy asks for.
PolicyMember(policy, kind) ==
  IF policy.t # "object" THEN policy
  ELSE IF kind = "fieldset" THEN policy.fieldset ELSE policy.name
PolicyLabel(policy, kind, raw) ==
  IF PolicyMember(policy, kind).t = "undefined" THEN title(raw)
  ELSE IF PolicyMember(policy, kind).t = "function" THEN Apply(PolicyMember(policy, kind), raw)
  ELSE raw
SectionPolicyLabels(policy, sec) ==
  Framed(sec.name, PolicyLabel(policy, "fieldset", sec.name))
  \o [j \in DOMAIN sec.fields |-> PolicyLabel(policy, "name", sec.fields[j].label)]
  \o Framed(sec.name, <<>>)

\* C7: the labels of the rendered body are those the request's formatting
\* policy asks for: title-cased when undefined, the function's result for a
\* kind that has one, unchanged for a kind set to null or false, and both
\* kinds unchanged when the policy itself is null or false.
C7_PolicyGovernsLabels ==
  FormCall /\ Len(parsed.grouped) > 0 =>
    RowLabels(options.body.rows) =
      Flatten([i \in DOMAIN parsed.grouped |->
                 SectionPolicyLabels(original.formatter, parsed.grouped[i])])

\* The files of a submission that have a name and at least one byte, in order.
Populated(e) == e.value.t = "file" /\ e.value.name # <<>> /\ Len(e.value.content) > 0
PopulatedFiles(entries) ==
  [i \in DOMAIN SelectSeq(entries, Populated) |-> SelectSeq(entries, Populated)[i].value]

\* C8: with a form body from which at least one file was collected, the
\* resolved attachments are the collected files in order, whatever the caller
\* passed; with none collected they are what the caller passed.
C8_CollectedFilesReplace ==
  FormCall =>
    IF PopulatedFiles(Submitted) # <<>>
    THEN options.attachments = Arr(PopulatedFiles(Submitted))
    ELSE options.attachments = original.attachments

C8_Witness ==
  /\ pc = "fetching"
  /\ original.body.t = "formdata"
  /\ original.attachments = Arr(<<file1, file2>>)
  /\ Submitted = <<Entry(upload, file3), Entry(upload, file2)>>
  /\ options.attachments = Arr(<<file3, file2>>)
  /\ Len(wire[1].attachments.items) = 2

\* C9: the collected attachments are exactly the files with a name and a
\* positive size, in order, each once; every field of the grouped data comes
\* from a string field, and the body has one field row for each of them and
\* one header for each section other than "general".
RowsOfKind(rows, kind) == Cardinality({r \in DOMAIN rows : rows[r].kind = kind})
C9_OnlyPopulatedFilesAttach ==
  FormCall =>
    /\ parsed.attachments = PopulatedFiles(Submitted)
    /\ \A p \in DOMAIN GroupedLabels(parsed.grouped) :
         InSeq(GroupedLabels(parsed.grouped)[p], Pairs(Content(Submitted)))
    /\ Len(parsed.grouped) > 0 =>
         /\ RowsOfKind(options.body.rows, "field") = Len(GroupedLabels(parsed.grouped))
         /\ RowsOfKind(options.body.rows, "header") =
              Cardinality({i \in DOMAIN parsed.grouped : parsed.grouped[i].name # general})
    /\ Len(parsed.grouped) = 0 => options.body = original.body

C9_Witness ==
  /\ pc = "prepared"
  /\ original.body.t = "formdata"
  /\ Submitted = <<Entry(In(hq, upload), NoNameFile), Entry(In(hq, upload), file1),
                   Entry(upload, EmptyFile)>>
  /\ parsed.attachments = <<file1>>
  /\ parsed.grouped = <<>>
  /\ options.attachments = Arr(<<file1>>)

\* C10: with a non-empty default, a call in which neither the request nor a
\* control field of the form supplies a non-empty to (from) resolves it to
\* the default and is not rejected for the missing recipient (sender).
Missing == [to |-> NoRecipient, from |-> NoSender]
Required == {"to", "from"}
FormSupplies(k) ==
  /\ original.body.t = "formdata"
  /\ \E i \in Supplying(Submitted, k) : decode_value(Submitted[i].value.s) # <<>>
C10_DefaultFillsEmpty ==
  pc # "idle" =>
    \A k \in Required :
      ~Absent(defaults[k]) /\ Absent(original[k]) /\ ~FormSupplies(k) =>
        /\ options[k] = defaults[k]
        /\ outcome # Thrown(Error(Missing[k]))

\* C11: a call that passed validation hands exactly one request to fetch and
\* ends with one outcome: nothing is sent before the fetch step, one request
\* (the zepto_params built) is out while the answer is awaited, and a call that
\* returned or threw after the fetch has still sent that one request only.
C11_OneRequestOneOutcome ==
  /\ Len(wire) <= 1
  /\ pc \in {"idle", "prepared", "built"} => wire = <<>> /\ outcome = NoOutcome
  /\ pc = "fetching" => wire = <<zepto_params>> /\ outcome = NoOutcome
  /\ pc = "returned" => wire = <<zepto_params>> /\ outcome.kind = "return"
  /\ pc = "thrown" =>
       /\ outcome.kind = "throw"
       /\ IF Absent(options.to) \/ Absent(options.from)
          THEN wire = <<>>
          ELSE wire = <<zepto_params>>

C11_Witness ==
  /\ pc = "thrown"
  /\ outcome = Thrown(ErrData)
  /\ ~Absent(options.to)
  /\ ~Absent(options.from)
  /\ Len(wire) = 1

\* The provider's error shape: an `error` object with a string code, a string
\* message, an array of details and, if any, a string request_id.
InnerShaped(i) ==
  /\ i.t = "object"
  /\ {"code", "message", "details"} \subseteq DOMAIN i.props
  /\ i.props.code.t = "string"
  /\ i.props.message.t = "string"
  /\ i.props.details.t = "array"
  /\ "request_id" \in DOMAIN i.props => i.props.request_id.t \in {"undefined", "string"}
ProviderShaped(v) ==
  /\ v.t = "object"
  /\ "props" \in DOMAIN v
  /\ "error" \in DOMAIN v.props
  /\ InnerShaped(v.props.error)
Failure(text) == [status |-> 400, data |-> [error |-> text]]

\* C12: a rejected fetch makes send throw the value it rejected with; a
\* response body of the provider's error shape is thrown as it is and any
\* other body returned as it is.  The example action answers a returned
\* response with success, a thrown provider error with a 400 failure carrying
\* its error.message, and any other thrown value with a 400 failure carrying
\* its string form.
C12_FailureReachesCaller ==
  /\ answer.kind = "reject" => pc = "thrown" /\ outcome = Thrown(answer.value)
  /\ answer.kind = "resolve" =>
       IF ProviderShaped(answer.value)
       THEN pc = "thrown" /\ outcome = Thrown(answer.value)
       ELSE pc = "returned" /\ outcome = Returned(answer.value)
  /\ outcome.kind = "return" => default_action(outcome) = [success |-> TRUE]
  /\ outcome.kind = "throw" =>
       IF ProviderShaped(outcome.value)
       THEN default_action(outcome) = Failure(outcome.value.props.error.props.message)
       ELSE default_action(outcome) = Failure(<<"Error: ", outcome.value.message>>)

C12_Witness ==
  /\ pc = "thrown"
  /\ answer = Resolved(ErrData)
  /\ outcome = Thrown(ErrData)
  /\ default_action(outcome) = Failure(Str(<<"b","a","d">>))

\* C13: for n files the encoder resolves to n attachments, the i-th carrying
\* the name, the MIME type and the whole content of the i-th file, whatever
\* the order in which the reads completed; a single file gives one attachment.
CarriesFile(att, f) ==
  /\ att.name = f.name
  /\ att.mime_type = f.type
  /\ Utf8(B64Bytes(att.content)) = f.content
C13_AttachmentsInInputOrder ==
  reads.pc = "resolved" =>
    /\ Len(reads.value) = Len(FileList(reads.files))
    /\ reads.files.t = "file" => Len(reads.value) = 1
    /\ \A i \in DOMAIN reads.value : CarriesFile(reads.value[i], FileList(reads.files)[i])

C13_Witness ==
  /\ reads.pc = "resolved"
  /\ reads.files = Arr(<<file1, file2, file3>>)
  /\ reads.order = <<3, 1, 2>>
  /\ Len(reads.value) = 3
  /\ reads.value[1].name = file1.name
  /\ reads.value[3].name = file3.name

\* The request of the call has been normalized into zepto_params.
Normalized == pc \in {"built", "fetching", "returned"} \/ (pc = "thrown" /\ wire # <<>>)
Blank(n) == \A i \in DOMAIN n : n[i] = " "

\* C14: as the sender, the display-name string of a name N and an address A
\* (bare, double-quoted, or with whitespace around its parts) normalizes to
\* what the structured { address: A, name: N } normalizes to when N is not
\* blank, and to what the plain string A normalizes to when N is blank.
C14_ShapesAgree ==
  Normalized =>
    \A n \in Names, a \in Addresses, st \in Styles :
      original.from = Str(Display(n, a, st)) =>
        IF Blank(n)
        THEN zepto_params.from = [address |-> Str(a), name |-> Undefined]
        ELSE zepto_params.from = [address |-> Str(a), name |-> Str(n)]

\* C15: a control value that is the base64 encoding of a text, with or
\* without line breaks inside it, is decoded to that text, and a value the
\* base64 pattern does not match is taken unchanged.
LastSubject == Submitted[Max(Supplying(Submitted, "subject"))].value.s
C15_DecoderRoundTrips ==
  FormCall /\ Supplying(Submitted, "subject") # {} =>
    /\ \A e \in Encoded : LastSubject = e.code => options.subject = Str(e.text)
    /\ ~base64_regex(LastSubject) /\ (\A e \in Encoded : LastSubject # e.code) =>
         options.subject = Str(LastSubject)

IsTable(body) == body.t = "string" /\ "rows" \in DOMAIN body

\* C16 (as stated): for every send whose body is a form, the htmlbody handed
\* to the transport is the rendered table, also when the form holds no
\* content field.
C16_BodyIsAlwaysTable ==
  FormCall /\ Normalized => IsTable(zepto_params.htmlbody)

\* C16: for a send whose body is a form with at least one content field, the
\* htmlbody handed to the transport is the table rendered from the content
\* fields, one field row for each (section, label) submitted; for a form with
\* no content field (only control fields, files, or nothing) it is the empty
\* string.
C16_TableOrEmptyBody ==
  FormCall /\ Normalized =>
    /\ wire # <<>> => wire[1].htmlbody = zepto_params.htmlbody
    /\ IF Content(Submitted) # <<>>
       THEN /\ IsTable(zepto_params.htmlbody)
            /\ zepto_params.htmlbody = options.body
            /\ RowsOfKind(zepto_params.htmlbody.rows, "field") =
                 Len(Distinct(Pairs(Content(Submitted))))
       ELSE zepto_params.htmlbody = Str(<<>>)

C16_Witness ==
  /\ pc = "fetching"
  /\ original.body.t = "formdata"
  /\ Submitted = <<Entry(k_subject, Str(Hi)), Entry(In(hq, upload), file1)>>
  /\ wire[1].subject = Str(Hi)
  /\ wire[1].htmlbody = Str(<<>>)

WellFormed(a) ==
  /\ a.address.t = "string" /\ Trim(a.address.s) # <<>>
  /\ a.name # Undefined => a.name.t = "string" /\ Trim(a.name.s) # <<>>

\* C17: every Address the normalizer produced for the sender and for the
\* recipients of a request (from a plain string, a display-name string, a
\* structured object, an array element or a comma-separated segment) has an
\* address that is non-empty after trimming and, when it has a name, a name
\* that is non-empty after trimming.
C17_AddressesWellFormed ==
  Normalized =>
    /\ WellFormed(zepto_params.from)
    /\ \A j \in DOMAIN zepto_params.to : WellFormed(zepto_params.to[j].email_address)

\* C18: every non-reserved string field of a submitted form is placed, when
\* its key has no delimiter, in the general section under the whole key, and
\* otherwise in the section named by the part of the key left of the delimiter
\* under the part right of it, also when either part is empty or the
\* delimiter occurs again; and the grouped data holds no other label.
C18_KeysSplitAtDelimiter ==
  FormCall =>
    /\ \A i \in DOMAIN Content(Submitted) :
         InSeq(KeyPair(Content(Submitted)[i].key), GroupedLabels(parsed.grouped))
    /\ \A j \in DOMAIN GroupedLabels(parsed.grouped) :
         InSeq(GroupedLabels(parsed.grouped)[j], Pairs(Content(Submitted)))

\* C19: once send has been called, with a string body or a form body, the
\* caller's request object is what it was when the call was made, so a later
\* send of the same object starts from the same request.
C19_RequestLeftUnchanged ==
  pc # "idle" => request = original

=============================================================================
